---- MODULE Spec2Model ----
(***************************************************************************)
(* Model of src/log-to-string.c: log_to_string formats a va_list into a    *)
(* heap buffer that is grown until the text fits, log_to_string_free       *)
(* releases it.  Each invocation runs on a thread of its own; the heap is  *)
(* the only thing the invocations share.                                   *)
(*                                                                         *)
(* The formatted text of an invocation is identified by the invocation     *)
(* (field text of a heap block) and by its length textLen; a block that    *)
(* holds len characters of it holds its first len characters.              *)
(***************************************************************************)
EXTENDS Integers, Sequences, FiniteSets, TLC

\* ---------------------------------------------------------------- bounds
NumThreads == 2          \* invocations that can be in flight
MaxNegConc == 1          \* negative reports per invocation in SpecConc

\* ------------------------------------------------------ program constants
InitialSize == 256       \* int size = 256;
INT_MAX == 2147483647    \* int size; int n;
INT_MIN == -INT_MAX - 1
NULL == 0

Threads == 1 .. NumThreads
NumAddrs == NumThreads
Addr == 1 .. NumAddrs
Unlimited == -1

\* lengths of the formatted text the invocations are called with
LenValues == {0, 2, InitialSize - 1, InitialSize, 300, INT_MAX - 1, INT_MAX}
ConcLenValues == {300, INT_MAX}
\* what vsnprintf reports when it cannot tell the length
NegReports == {-1}

VARIABLES
    pc,          \* position of each invocation
    textLen,     \* length of the text fmt and vargs format to
    vargs,       \* state of the caller's va_list
    vargs_copy,  \* state of the loop's duplicate
    buffer, size, n,   \* the locals of log_to_string
    result,      \* the returned pointer
    heap,        \* the allocator's blocks
    faults,      \* memory errors committed so far
    reports,     \* history: what vsnprintf reported, per attempt
    caps,        \* history: the capacity of each attempt
    allocFailed, \* history: malloc or realloc returned NULL
    negLeft,     \* negative reports the renderer may still give
    overflowMode \* what signed overflow does in this build

vars == <<pc, textLen, vargs, vargs_copy, buffer, size, n,
          result, heap, faults, reports, caps, allocFailed, negLeft,
          overflowMode>>

\* ------------------------------------------------------------------ heap
FreeCell == [live |-> FALSE, owner |-> 0, cap |-> 0, len |-> 0,
             text |-> 0, term |-> FALSE]

NewCell(t, sz) == [live |-> TRUE, owner |-> t, cap |-> sz, len |-> 0,
                   text |-> 0, term |-> FALSE]

\* a request of a negative int is, as a size_t, above PTRDIFF_MAX: the
\* allocator cannot satisfy it
Satisfiable(sz) == sz >= 0

\* the errors of an access by t to the block at p
AccessFaults(h, p, t) ==
    IF p = NULL THEN {"null_access"}
    ELSE IF ~h[p].live THEN {"use_after_free"}
    ELSE IF h[p].owner # t THEN {"foreign_access"}
    ELSE {}

\* a free that does not accept NULL
FreeFaultsNoNullCheck(h, p, t) ==
    IF p = NULL THEN {"invalid_free"}
    ELSE IF ~h[p].live THEN {"double_free"}
    ELSE IF h[p].owner # t THEN {"foreign_free"}
    ELSE {}

\* free(p): the errors of t freeing p (free(NULL) does nothing) ...
FreeFaults(h, p, t) ==
    IF p = NULL THEN {}
    ELSE IF ~h[p].live THEN {"double_free"}
    ELSE IF h[p].owner # t THEN {"foreign_free"}
    ELSE {}

\* ... and the heap after it
Free(h, p) == IF p = NULL THEN h ELSE [h EXCEPT ![p] = FreeCell]

\* the block after realloc to sz: the content survives a growth
Resized(c, t, sz) ==
    IF sz >= c.cap THEN [c EXCEPT !.cap = sz, !.owner = t]
    ELSE NewCell(t, sz)

\* -------------------------------------------------------- pure functions
\* the test with <= for <, without its second half, and with n > 0
FitsOffByOne(nn, sz) == nn > -1 /\ nn <= sz
FitsNoSizeTest(nn, sz) == nn > -1
FitsPositiveOnly(nn, sz) == nn > 0 /\ nn < sz
\* n > -1 && n < size
Fits(nn, sz) == nn > -1 /\ nn < sz

\* size *= 2 leaves the int range
Overflows2x(sz) == sz > INT_MAX \div 2 \/ sz < -(INT_MAX \div 2) - 1

\* 2 * sz modulo 2^32, as a signed 32-bit value
Wrap2x(sz) ==
    IF sz > 0 THEN ((sz - INT_MAX) - 1) * 2 ELSE ((sz + INT_MAX) + 1) * 2

\* the new size overflows: n + 1 or size * 2
SizeOverflows(nn, sz) == IF nn > -1 THEN nn = INT_MAX ELSE Overflows2x(sz)

\* the growth that doubles whatever the renderer reported
NewSizeAlwaysDouble(nn, sz) ==
    IF Overflows2x(sz) THEN Wrap2x(sz) ELSE sz * 2

\* if (n > -1) size = n + 1; else size *= 2;   (two's complement result)
NewSize(nn, sz) ==
    IF nn > -1 THEN (IF nn = INT_MAX THEN INT_MIN ELSE nn + 1)
    ELSE (IF Overflows2x(sz) THEN Wrap2x(sz) ELSE sz * 2)

\* the characters vsnprintf stores ahead of the terminator
Written(len, sz) == IF len < sz THEN len ELSE sz - 1

\* the duplicate left open
va_end_missing(h) == h
\* va_end(vargs_copy)
va_end(h) == "closed"

\* the assignment forgotten: buffer keeps the pointer realloc gave up
KeepOldBuffer(old, new) == old
\* buffer = new_buffer
AdoptBuffer(old, new) == new

\* a buffer variable shared by the invocations (static char *buffer)
RenderTargetShared(t) ==
    buffer[CHOOSE u \in Threads : \A v \in Threads : u <= v]
\* the block vsnprintf writes to: the invocation's own buffer
RenderTarget(t) == buffer[t]

\* the error path without free(buffer)
ReleaseOnFailureLeak(h, p) == h
\* free(buffer) on the error path
ReleaseOnFailure(h, p) == Free(h, p)

\* a size kept from one call to the next (static int size), and a smaller
\* initial capacity
StartSizeStatic(t) ==
    IF \E u \in Threads : size[u] > InitialSize
    THEN size[CHOOSE u \in Threads : size[u] > InitialSize]
    ELSE InitialSize
StartSizeHalved(t) == InitialSize \div 2
\* the capacity an invocation starts with
StartSize(t) == InitialSize

\* ------------------------------------------------------------------ Init
TypeOK ==
    /\ pc \in [Threads -> {"off", "call", "va_copy", "vsnprintf", "va_end",
                           "test", "grow", "done",
                           "released", "aborted"}]
    /\ textLen \in [Threads -> Nat]
    /\ vargs \in [Threads -> {"start", "used", "closed"}]
    /\ vargs_copy \in [Threads -> {"none", "start", "used", "closed"}]
    /\ buffer \in [Threads -> Addr \cup {NULL}]
    /\ size \in [Threads -> Int]
    /\ n \in [Threads -> Int]
    /\ result \in [Threads -> Addr \cup {NULL}]
    /\ faults \subseteq {"null_access", "use_after_free", "foreign_access",
                         "invalid_free", "double_free", "foreign_free",
                         "va_reuse", "overrun"}
    /\ allocFailed \in [Threads -> BOOLEAN]
    /\ overflowMode \in {"wrap", "trap"}

InitCommon ==
    /\ vargs = [t \in Threads |-> "start"]
    /\ vargs_copy = [t \in Threads |-> "none"]
    /\ buffer = [t \in Threads |-> NULL]
    /\ size = [t \in Threads |-> 0]
    /\ n = [t \in Threads |-> 0]
    /\ result = [t \in Threads |-> NULL]
    /\ heap = [a \in Addr |-> FreeCell]
    /\ faults = {}
    /\ reports = [t \in Threads |-> <<>>]
    /\ caps = [t \in Threads |-> <<>>]
    /\ allocFailed = [t \in Threads |-> FALSE]
    /\ overflowMode \in {"wrap", "trap"}

\* one invocation, any renderer
Init ==
    /\ InitCommon
    /\ pc = [t \in Threads |-> IF t = 1 THEN "call" ELSE "off"]
    /\ \E len \in LenValues :
          textLen = [t \in Threads |-> IF t = 1 THEN len ELSE 0]
    /\ negLeft = [t \in Threads |-> Unlimited]

\* NumThreads concurrent invocations with equal format string and arguments
InitConc ==
    /\ InitCommon
    /\ pc = [t \in Threads |-> "call"]
    /\ \E len \in ConcLenValues : textLen = [t \in Threads |-> len]
    /\ negLeft = [t \in Threads |-> MaxNegConc]

\* --------------------------------------------------------------- actions
FreeAddrs == {a \in Addr : ~heap[a].live}

\* int size = 256; if ((buffer = malloc(size)) == NULL) return NULL;
Malloc(t) ==
    /\ pc[t] = "call"
    /\ size' = [size EXCEPT ![t] = StartSize(t)]
    /\ \E a \in {NULL} \cup FreeAddrs :
          IF a = NULL
          THEN /\ allocFailed' = [allocFailed EXCEPT ![t] = TRUE]
               /\ result' = [result EXCEPT ![t] = NULL]
               /\ pc' = [pc EXCEPT ![t] = "done"]
               /\ UNCHANGED <<buffer, heap>>
          ELSE /\ buffer' = [buffer EXCEPT ![t] = a]
               /\ heap' = [heap EXCEPT ![a] = NewCell(t, size'[t])]
               /\ pc' = [pc EXCEPT ![t] = "va_copy"]
               /\ UNCHANGED <<allocFailed, result>>
    /\ UNCHANGED <<textLen, vargs, vargs_copy, n, faults,
                   reports, caps, negLeft, overflowMode>>

\* va_copy(vargs_copy, vargs);
VaCopy(t) ==
    /\ pc[t] = "va_copy"
    /\ vargs_copy' = [vargs_copy EXCEPT ![t] = vargs[t]]
    /\ pc' = [pc EXCEPT ![t] = "vsnprintf"]
    /\ UNCHANGED <<textLen, vargs, buffer, size, n, result, heap,
                   faults, reports, caps, allocFailed, negLeft, overflowMode>>

\* int n = vsnprintf(buffer, size, fmt, vargs_copy);
\* stores what fits and the terminator, reports the full length or, when it
\* cannot tell, a negative value
Vsnprintf(t) ==
    /\ pc[t] = "vsnprintf"
    /\ LET p == RenderTarget(t)
           sz == size[t]
           bad == AccessFaults(heap, p, t)
       IN  /\ faults' = faults \cup bad
                  \cup (IF vargs_copy[t] # "start" THEN {"va_reuse"} ELSE {})
                  \cup (IF bad = {} /\ sz > heap[p].cap
                        THEN {"overrun"} ELSE {})
           /\ heap' = IF p # NULL /\ heap[p].live /\ sz > 0
                      THEN [heap EXCEPT ![p].len = Written(textLen[t], sz),
                                        ![p].text = t,
                                        ![p].term = TRUE]
                      ELSE heap
    /\ \E r \in {textLen[t]} \cup (IF negLeft[t] # 0 THEN NegReports ELSE {}) :
          /\ n' = [n EXCEPT ![t] = r]
          /\ reports' = [reports EXCEPT ![t] = Append(@, r)]
          /\ negLeft' = [negLeft EXCEPT ![t] =
                            IF r < 0 /\ @ # Unlimited THEN @ - 1 ELSE @]
    /\ caps' = [caps EXCEPT ![t] = Append(@, size[t])]
    /\ vargs_copy' = [vargs_copy EXCEPT ![t] = "used"]
    /\ pc' = [pc EXCEPT ![t] = "va_end"]
    /\ UNCHANGED <<textLen, vargs, buffer, size, result,
                   allocFailed, overflowMode>>

\* va_end(vargs_copy);
VaEnd(t) ==
    /\ pc[t] = "va_end"
    /\ vargs_copy' = [vargs_copy EXCEPT ![t] = va_end(@)]
    /\ pc' = [pc EXCEPT ![t] = "test"]
    /\ UNCHANGED <<textLen, vargs, buffer, size, n, result, heap,
                   faults, reports, caps, allocFailed, negLeft, overflowMode>>

\* if (n > -1 && n < size) break;  ...  return buffer;
Test(t) ==
    /\ pc[t] = "test"
    /\ IF Fits(n[t], size[t])
       THEN /\ result' = [result EXCEPT ![t] = buffer[t]]
            /\ pc' = [pc EXCEPT ![t] = "done"]
       ELSE /\ pc' = [pc EXCEPT ![t] = "grow"]
            /\ UNCHANGED result
    /\ UNCHANGED <<textLen, vargs, vargs_copy, buffer, size, n,
                   heap, faults, reports, caps, allocFailed, negLeft,
                   overflowMode>>

\* if (n > -1) size = n + 1; else size *= 2;
\* char *new_buffer = realloc(buffer, size);
\* if (new_buffer == NULL) { free(buffer); return NULL; }
\* buffer = new_buffer;
\* Signed overflow is undefined: the build wraps or traps.  realloc fails
\* (and leaves the block alone), resizes in place, or moves the block and
\* frees the old one.
Grow(t) ==
    /\ pc[t] = "grow"
    /\ IF SizeOverflows(n[t], size[t]) /\ overflowMode = "trap"
       THEN /\ pc' = [pc EXCEPT ![t] = "aborted"]
            /\ UNCHANGED <<size, buffer, result, heap, faults, allocFailed>>
       ELSE LET p == buffer[t]
                sz == NewSize(n[t], size[t])
                bad == AccessFaults(heap, p, t)
            IN  /\ size' = [size EXCEPT ![t] = sz]
                /\ \E new_buffer \in {NULL} \cup (IF Satisfiable(sz) /\ bad = {}
                                                  THEN {p} \cup FreeAddrs
                                                  ELSE {}) :
                      IF new_buffer = NULL
                      THEN /\ allocFailed' = [allocFailed EXCEPT ![t] = TRUE]
                           /\ faults' = faults \cup bad
                                               \cup FreeFaults(heap, p, t)
                           /\ heap' = ReleaseOnFailure(heap, p)
                           /\ result' = [result EXCEPT ![t] = NULL]
                           /\ pc' = [pc EXCEPT ![t] = "done"]
                           /\ UNCHANGED buffer
                      ELSE /\ heap' =
                                IF new_buffer = p
                                THEN [heap EXCEPT
                                        ![p] = Resized(heap[p], t, sz)]
                                ELSE [heap EXCEPT
                                        ![new_buffer] = Resized(heap[p], t, sz),
                                        ![p] = FreeCell]
                           /\ buffer' = [buffer EXCEPT ![t] =
                                            AdoptBuffer(p, new_buffer)]
                           /\ pc' = [pc EXCEPT ![t] = "va_copy"]
                           /\ UNCHANGED <<faults, result, allocFailed>>
    /\ UNCHANGED <<textLen, vargs, vargs_copy, n, reports, caps, negLeft,
                   overflowMode>>

\* void log_to_string_free(char *buffer) { free(buffer); }
\* the caller releases what log_to_string returned
LogToStringFree(t) ==
    /\ pc[t] = "done"
    /\ faults' = faults \cup FreeFaults(heap, result[t], t)
    /\ heap' = Free(heap, result[t])
    /\ pc' = [pc EXCEPT ![t] = "released"]
    /\ UNCHANGED <<textLen, vargs, vargs_copy, buffer, size, n,
                   result, reports, caps, allocFailed, negLeft, overflowMode>>

Step(t) ==
    \/ Malloc(t)
    \/ VaCopy(t)
    \/ Vsnprintf(t)
    \/ VaEnd(t)
    \/ Test(t)
    \/ Grow(t)
    \/ LogToStringFree(t)

Next == \E t \in Threads : Step(t)

Spec == Init /\ [][Next]_vars

\* the calling thread runs log_to_string to completion
FairSpec == Init /\ [][Next]_vars /\ \A t \in Threads : WF_vars(Step(t))

SpecConc == InitConc /\ [][Next]_vars

\* ---------------------------------------------------------------- claims
Returned(t) == pc[t] \in {"done", "released"}
InLoop(t) == pc[t] \in {"va_copy", "vsnprintf", "va_end", "test", "grow"}
Owned(t) == {a \in Addr : heap[a].live /\ heap[a].owner = t}
\* the block holds the whole text of t and its terminator
Complete(c, t) ==
    c.live /\ c.term /\ c.text = t /\ c.len = textLen[t] /\ c.cap > c.len

\* C1: a non-null return follows an attempt with 0 <= n < size, and the
\* returned block holds the complete text (n characters) and a terminator
\* within its capacity; a truncated text is never returned.
C1_ReturnedBufferComplete ==
    \A t \in Threads :
        pc[t] = "done" /\ result[t] # NULL =>
            /\ 0 <= n[t] /\ n[t] < size[t]
            /\ n[t] = textLen[t]
            /\ heap[result[t]].cap = size[t]
            /\ heap[result[t]].len = n[t]
            /\ Complete(heap[result[t]], t)

C1_Witness ==
    \E t \in Threads :
        /\ pc[t] = "done" /\ result[t] # NULL
        /\ Len(reports[t]) >= 3
        /\ \E i \in 1 .. Len(reports[t]) : reports[t][i] < 0

\* C2: when malloc or realloc fails the call returns NULL and no block the
\* call allocated is live: none was allocated, or the held one was freed
\* once (no leak, no double free).
C2_FailureReleasesBuffer ==
    \A t \in Threads :
        Returned(t) /\ allocFailed[t] =>
            /\ result[t] = NULL
            /\ Owned(t) = {}
            /\ reports[t] = <<>> => buffer[t] = NULL
            /\ buffer[t] # NULL => ~heap[buffer[t]].live
            /\ faults = {}

C2_Witness ==
    \E t \in Threads :
        /\ pc[t] = "done" /\ allocFailed[t] /\ result[t] = NULL
        /\ Len(caps[t]) >= 2
        /\ buffer[t] # NULL /\ ~heap[buffer[t]].live

\* C3: for a text of length L >= 256 the returned block holds exactly the
\* L characters and the terminator, in a capacity of at least L + 1, after
\* at least one growth.
C3_GrowthNeverTruncates ==
    \A t \in Threads :
        pc[t] = "done" /\ result[t] # NULL /\ textLen[t] >= 256 =>
            /\ Complete(heap[result[t]], t)
            /\ heap[result[t]].len = textLen[t]
            /\ heap[result[t]].cap > textLen[t]
            /\ Len(caps[t]) >= 2

C3_Witness ==
    \E t \in Threads :
        /\ pc[t] = "done" /\ result[t] # NULL /\ textLen[t] = 300
        /\ caps[t] = <<256, 301>>
        /\ heap[result[t]].len = 300

\* C4: a text shorter than 256 bytes whose length the renderer reports is
\* returned complete after exactly one attempt, without realloc, in the
\* initial capacity of 256.
C4_ShortTextFirstAttempt ==
    \A t \in Threads :
        /\ Returned(t) /\ textLen[t] < 256
        /\ reports[t] # <<>> /\ reports[t][1] >= 0
        => /\ Len(reports[t]) = 1
           /\ caps[t] = <<256>>
           /\ size[t] = 256
           /\ result[t] # NULL
           /\ ~allocFailed[t]
           /\ pc[t] = "done" => /\ Complete(heap[result[t]], t)
                                /\ heap[result[t]].cap = 256

C4_Witness ==
    \E t \in Threads :
        /\ pc[t] = "done" /\ result[t] # NULL /\ textLen[t] = 255
        /\ reports[t] = <<255>>
        /\ heap[result[t]].cap = 256

\* C5: the caller's va_list is never consumed; every attempt renders from a
\* duplicate made just before it, which is ended right after that one
\* render and is open on no return path.
C5_ArgumentListDuplicated ==
    /\ "va_reuse" \notin faults
    /\ \A t \in Threads :
        /\ vargs[t] = "start"
        /\ pc[t] = "va_copy" => vargs_copy[t] \in {"none", "closed"}
        /\ pc[t] = "vsnprintf" => vargs_copy[t] = "start"
        /\ pc[t] = "va_end" => vargs_copy[t] = "used"
        /\ pc[t] \in {"test", "grow", "aborted"} => vargs_copy[t] = "closed"
        /\ Returned(t) => vargs_copy[t] = (IF reports[t] = <<>> THEN "none"
                                           ELSE "closed")

C5_Witness ==
    \E t \in Threads :
        /\ Returned(t) /\ Len(reports[t]) >= 2
        /\ vargs[t] = "start" /\ vargs_copy[t] = "closed"

\* C6: every invocation eventually returns, with a buffer or with NULL,
\* whatever the renderer reports and the allocator answers.
C6_EventuallyDone ==
    \A t \in Threads : (pc[t] = "call") ~> Returned(t)

\* C7: an invocation holds at most one live block, its buffer variable is
\* that block while the loop runs (never the pointer realloc gave up), a
\* non-null return leaves exactly the returned block live, no step other
\* than the caller's log_to_string_free touches the returned block, and
\* after that free nothing of the call is live, with no invalid access or
\* free on the way.
C7_OwnedBlocks ==
    /\ faults = {}
    /\ \A t \in Threads :
        /\ Cardinality(Owned(t)) <= 1
        /\ InLoop(t) \/ pc[t] = "aborted" => Owned(t) = {buffer[t]}
        /\ pc[t] = "done" /\ result[t] # NULL => Owned(t) = {result[t]}
        /\ pc[t] = "done" /\ result[t] = NULL => Owned(t) = {}
        /\ pc[t] = "released" => Owned(t) = {}

C7_ExclusiveOwnership ==
    /\ []C7_OwnedBlocks
    /\ [][\A t \in Threads :
             /\ pc[t] = "done" /\ result[t] # NULL
             /\ heap'[result[t]] # heap[result[t]]
             => pc'[t] = "released" /\ ~heap'[result[t]].live]_vars

C7_Witness ==
    \E t \in Threads : \E u \in Threads :
        /\ pc[t] = "released" /\ result[t] # NULL
        /\ Len(caps[t]) >= 2
        /\ Owned(t) = {} /\ faults = {}
        /\ u # t /\ InLoop(u) /\ buffer[u] = result[t]

\* C8: two calls with equal format string and arguments that get the same
\* renderer reports try the same capacities, attempt by attempt, and
\* return the same text.
C8_Deterministic ==
    \A t \in Threads : \A u \in Threads :
        textLen[t] = textLen[u] =>
            /\ \A i \in 1 .. Len(caps[t]) :
                  /\ i <= Len(caps[u])
                  /\ SubSeq(reports[t], 1, i - 1) = SubSeq(reports[u], 1, i - 1)
                  => caps[t][i] = caps[u][i]
            /\ /\ pc[t] = "done" /\ result[t] # NULL
               /\ pc[u] = "done" /\ result[u] # NULL
               /\ reports[t] = reports[u]
               => /\ heap[result[t]].len = heap[result[u]].len
                  /\ heap[result[t]].term = heap[result[u]].term
                  /\ heap[result[t]].cap = heap[result[u]].cap

C8_Witness ==
    \E t \in Threads : \E u \in Threads :
        /\ t # u
        /\ pc[t] = "done" /\ result[t] # NULL
        /\ pc[u] = "done" /\ result[u] # NULL
        /\ reports[t] = reports[u]
        /\ caps[t] = caps[u]
        /\ Len(caps[t]) >= 2

\* C9: concurrent invocations do not interfere: no invocation accesses,
\* reallocates or frees a block of another, the buffers and duplicates in
\* use are pairwise distinct, and each non-null return is the complete text
\* of its own invocation, as when it runs alone.
C9_NoInterference ==
    /\ faults = {}
    /\ \A a \in Addr :
          heap[a].live /\ heap[a].text # 0 => heap[a].text = heap[a].owner
    /\ \A t \in Threads :
        /\ InLoop(t) => buffer[t] \in Owned(t)
        /\ \A u \in Threads :
              t # u /\ InLoop(t) /\ InLoop(u) => buffer[t] # buffer[u]
        /\ pc[t] = "done" /\ result[t] # NULL =>
              /\ heap[result[t]].owner = t
              /\ Complete(heap[result[t]], t)
              /\ heap[result[t]].cap = size[t]
        /\ Returned(t) /\ result[t] = NULL => allocFailed[t]

C9_Witness ==
    \E t \in Threads : \E u \in Threads :
        /\ t # u
        /\ pc[t] = "done" /\ result[t] # NULL /\ Len(caps[t]) >= 2
        /\ pc[u] = "done" /\ result[u] # NULL /\ Len(caps[u]) >= 2
        /\ result[t] # result[u]
        /\ heap[result[t]].text = t /\ heap[result[u]].text = u

\* C10: log_to_string_free(NULL) changes no heap block and commits no
\* error.
C10_FreeNullNoOp ==
    [][\A t \in Threads :
          pc[t] = "done" /\ result[t] = NULL /\ pc'[t] = "released"
          => heap' = heap /\ faults' = faults /\ faults' = {}]_vars

C10_Witness ==
    \E t \in Threads :
        /\ pc[t] = "released" /\ result[t] = NULL
        /\ faults = {}

\* C11: the capacities attempted are 256 and then, after each attempt that
\* does not fit, exactly n + 1 when the report n is non-negative (and then
\* n >= capacity) and exactly twice the capacity when it is negative; the
\* block in use has the capacity in size.
C11_TwoBranchGrowth ==
    \A t \in Threads :
        /\ caps[t] # <<>> => caps[t][1] = 256
        /\ InLoop(t) => heap[buffer[t]].cap = size[t]
        /\ \A i \in 1 .. Len(caps[t]) - 1 :
              IF reports[t][i] >= 0
              THEN /\ reports[t][i] >= caps[t][i]
                   /\ caps[t][i + 1] - 1 = reports[t][i]
              ELSE /\ caps[t][i + 1] \div 2 = caps[t][i]
                   /\ caps[t][i + 1] % 2 = 0

C11_Witness ==
    \E t \in Threads :
        /\ pc[t] = "done" /\ result[t] # NULL
        /\ reports[t] = <<300, -1, 300>>
        /\ caps[t] = <<256, 301, 602>>
        /\ heap[result[t]].cap = 602

\* C12: on every retry the new size is representable in int, positive and
\* greater than the previous one, for every report and every number of
\* doublings.
C12_NewSizeInRange ==
    [][\A t \in Threads :
          pc[t] = "grow" /\ pc'[t] # "grow"
          => /\ pc'[t] # "aborted"
             /\ size'[t] > 0
             /\ size'[t] > size[t]]_vars

\* C13: the loop is left with success exactly when 0 <= n < size
\* (n = size - 1 succeeds, n = size retries), and the buffer of the
\* successful render is returned as it is: no step from that render to the
\* return changes the heap, and the returned block keeps capacity size.
C13_SuccessExactlyWhenFits ==
    [][\A t \in Threads :
          /\ pc[t] = "va_end" /\ pc'[t] # "va_end" => heap' = heap
          /\ pc[t] = "test" /\ pc'[t] # "test"
             => /\ heap' = heap /\ buffer' = buffer /\ size' = size
                /\ IF 0 <= n[t] /\ n[t] < size[t]
                   THEN /\ pc'[t] = "done"
                        /\ result'[t] = buffer[t]
                        /\ heap'[result'[t]].cap = size[t]
                   ELSE pc'[t] = "grow"]_vars

C13_Witness ==
    \E t \in Threads :
        /\ pc[t] = "done" /\ result[t] # NULL
        /\ reports[t] = <<256, 256>>
        /\ caps[t] = <<256, 257>>
        /\ n[t] = size[t] - 1
        /\ heap[result[t]].cap = 257

\* C14: when every report is the length L >= 0 of the text and no
\* allocation fails, the call ends after one attempt in capacity 256 if
\* L < 256, and otherwise after one growth to L + 1 and a second attempt,
\* which succeeds.
C14_ConstantReportTwoAttempts ==
    \A t \in Threads :
        /\ reports[t] # <<>>
        /\ \A i \in 1 .. Len(reports[t]) : reports[t][i] = textLen[t]
        /\ ~allocFailed[t]
        => /\ Len(reports[t]) <= 2
           /\ Len(reports[t]) = 2 => textLen[t] >= 256
           /\ pc[t] \in {"done", "released", "aborted"} =>
                 /\ result[t] # NULL /\ pc[t] # "aborted"
                 /\ IF textLen[t] < 256
                    THEN caps[t] = <<256>>
                    ELSE /\ Len(caps[t]) = 2
                         /\ caps[t][1] = 256
                         /\ caps[t][2] - 1 = textLen[t]
====
